---- MODULE Spec2Model ----
(***************************************************************************)
(* Model of the webview service worker                                     *)
(* (src/vs/workbench/contrib/webview/browser/pre/service-worker.js).       *)
(*                                                                         *)
(* Strings are sequences of one-character strings, so that the string      *)
(* operations of the worker (template-literal keys, String.replace,        *)
(* RegExp matches) are computed on characters as the code computes them.   *)
(*                                                                         *)
(* The worker is single threaded: every action below is one run of a       *)
(* handler from one suspension point (await / .then) to the next.          *)
(***************************************************************************)
EXTENDS Integers, Sequences, FiniteSets, TLC

VARIABLES
    clients,                \* ids of the window clients currently connected (self.clients)
    resourceRequestStore,   \* resourceRequestStore.map : key -> entry
    localhostRequestStore,  \* localhostRequestStore.map : key -> entry
    requests,               \* fetch events handled so far, in arrival order
    posted,                 \* messages posted to clients with postMessage
    console                 \* the last line written with console.log / the last uncaught error

vars == <<clients, resourceRequestStore, localhostRequestStore, requests, posted, console>>

----------------------------------------------------------------------------
(* Bounds *)

MaxRequests == 2

----------------------------------------------------------------------------
(* Strings *)

StartsWith(s, p) == Len(p) <= Len(s) /\ SubSeq(s, 1, Len(p)) = p

\* positions at which p occurs in s
Occurrences(s, p) == {i \in 1..(Len(s) - Len(p) + 1) : SubSeq(s, i, i + Len(p) - 1) = p}

Min(S) == CHOOSE x \in S : \A y \in S : x <= y

\* String.prototype.replace(pattern : string, replacement : string):
\* only the first occurrence is replaced
StringReplace(s, p, r) ==
    IF Occurrences(s, p) = {} THEN s
    ELSE LET i == Min(Occurrences(s, p))
         IN  SubSeq(s, 1, i - 1) \o r \o SubSeq(s, i + Len(p), Len(s))

Letters == {"a", "b", "c", "d", "e", "h", "i", "l", "m", "n", "o", "p",
            "r", "s", "t", "u", "v", "w", "x", "y"}
Digits == {"0", "1", "2", "3", "4", "5", "6", "7", "8", "9"}

\* \w of a regular expression
WordChars == Letters \cup Digits \cup {"_"}

\* [a-z0-9-] under the i flag
IdChars == Letters \cup Digits \cup {"-"}

\* \b immediately before position i of s, when s[i] is a word character
WordBoundaryBefore(s, i) == i = 1 \/ s[i - 1] \notin WordChars

resourceRoot == <<"/", "v", "s", "c", "o", "d", "e", "-", "r", "e", "s", "o", "u", "r", "c", "e">>

KeySeparator == <<"@", "@", "@">>

IdEquals == <<"i", "d", "=">>

----------------------------------------------------------------------------
(* Values *)

Undefined == [type |-> "undefined"]

Str(s) == [type |-> "string", str |-> s]

\* !x of JavaScript for the values of the model
Falsy(x) == x.type = "undefined" \/ (x.type = "string" /\ x.str = <<>>)

notFoundResponse == [type |-> "response", status |-> 404, body |-> "Not Found"]

\* fetch(event.request): the unmodified network attempt of the request
NetworkFetch(url) == [type |-> "fetch", request |-> url]

TypeError == [type |-> "TypeError"]

Pending == [type |-> "pending"]

----------------------------------------------------------------------------
(* URLs *)

Origin(url) == url.scheme \o url.host

\* event.request.url
Href(url) == url.scheme \o url.host \o url.pathname \o url.search

\* requestUrl.host.match(/^localhost:(\d+)$/)
LocalhostPrefix == <<"l", "o", "c", "a", "l", "h", "o", "s", "t", ":">>

IsLocalhostHost(host) ==
    /\ StartsWith(host, LocalhostPrefix)
    /\ Len(host) > Len(LocalhostPrefix)
    /\ \A i \in (Len(LocalhostPrefix) + 1)..Len(host) : host[i] \in Digits

Http == <<"h", "t", "t", "p", ":", "/", "/">>

\* self.origin
SelfOrigin == [scheme |-> Http, host |-> <<"w">>]

ResourceUrl ==
    [scheme |-> Http, host |-> <<"w">>,
     pathname |-> resourceRoot \o <<"/", "x">>, search |-> <<>>]

LocalhostUrl ==
    [scheme |-> Http, host |-> LocalhostPrefix \o <<"8", "1">>,
     pathname |-> <<"/", "p">>, search |-> <<"?", "x", "=", "1">>]

\* a replacement origin that a controller answers with
RedirectOrigin == Http \o LocalhostPrefix \o <<"8", "2">>

----------------------------------------------------------------------------
(* Clients *)

IdA == <<"a">>
IdAB == <<"a", "b">>

OuterUrl(id) == [pathname |-> <<"/">>, search |-> <<"?">> \o IdEquals \o id]
InnerUrl(id) == [pathname |-> <<"/", "w">>, search |-> <<"?">> \o IdEquals \o id]

\* client.url of every window client there is, by client id
ClientUrl ==
    [c \in 1..5 |->
        CASE c = 1 -> OuterUrl(IdA)
          [] c = 2 -> InnerUrl(IdA)
          [] c = 3 -> OuterUrl(IdAB)
          [] c = 4 -> InnerUrl(IdAB)
          [] c = 5 -> [pathname |-> <<"/", "w">>, search |-> <<>>]]

ClientIds == DOMAIN ClientUrl

\* the client ids that fetch events carry: the content frames, and the id of a client
\* that is gone by the time the handler looks it up
NoClientId == 0

\* the clients that go away while the worker runs: the outer frames
Closable == {1, 3}

\* the clients that send messages to the worker: both outer frames, the content frame
\* of IdA and the client with no id
MessageSources == {1, 2, 3, 5}

----------------------------------------------------------------------------
(* getWebviewIdForClient *)

\* positions where /\bid=([a-z0-9-]+)/i matches in s
IdMatches(s) ==
    {i \in Occurrences(s, IdEquals) :
        /\ WordBoundaryBefore(s, i)
        /\ i + 3 <= Len(s)
        /\ s[i + 3] \in IdChars}

\* the longest run of characters of cs in s from position i
RECURSIVE Run(_, _, _)
Run(s, i, cs) ==
    IF i <= Len(s) /\ s[i] \in cs THEN <<s[i]>> \o Run(s, i + 1, cs) ELSE <<>>

\* TRUE when match() returns null, so that [1] throws a TypeError
WebviewIdThrows(client) == IdMatches(ClientUrl[client].search) = {}

getWebviewIdForClient(client) ==
    LET s == ClientUrl[client].search
    IN  Run(s, Min(IdMatches(s)) + 3, IdChars)

\* getWebviewIdForClient that returns the empty id when the pattern does not match
WebviewIdOfClient_EmptyId ==
    [c \in ClientIds |->
        IF WebviewIdThrows(c) THEN [throws |-> FALSE, id |-> <<>>]
        ELSE [throws |-> FALSE, id |-> getWebviewIdForClient(c)]]

\* getWebviewIdForClient of every client: the id, or that the call throws
WebviewIdOfClient ==
    [c \in ClientIds |->
        IF WebviewIdThrows(c) THEN [throws |-> TRUE, id |-> <<>>]
        ELSE [throws |-> FALSE, id |-> getWebviewIdForClient(c)]]

----------------------------------------------------------------------------
(* getOuterIframeClient *)

\* clientUrl.search.match(new RegExp('\\bid=' + webviewId))
SearchMatchesId(s, webviewId) ==
    \E i \in Occurrences(s, IdEquals \o webviewId) : WordBoundaryBefore(s, i)

IsOuterIframeClient(client, webviewId) ==
    /\ ClientUrl[client].pathname = <<"/">>
    /\ SearchMatchesId(ClientUrl[client].search, webviewId)

\* allClients.find(...) returns the first match in the order of matchAll, which the
\* browser decides: any connected match can be the result. 0 stands for undefined.
getOuterIframeClient(webviewId) ==
    IF \E c \in clients : IsOuterIframeClient(c, webviewId)
    THEN {c \in clients : IsOuterIframeClient(c, webviewId)}
    ELSE {0}

----------------------------------------------------------------------------
(* RequestStore *)

\* a key that leaves the webview id out
_key_NoWebviewId(webviewId, path) == KeySeparator \o path

_key(webviewId, path) == webviewId \o KeySeparator \o path

\* get that looks the path up without the webview id
get_PathOnly(map, webviewId, path) ==
    IF path \in DOMAIN map THEN map[path] ELSE Undefined

get(map, webviewId, path) ==
    IF _key(webviewId, path) \in DOMAIN map THEN map[_key(webviewId, path)] ELSE Undefined

\* create that stores a fresh entry whether or not there is one
create_Replaces(map, webviewId, path) ==
    [k \in DOMAIN map \cup {_key(webviewId, path)} |->
        IF k = _key(webviewId, path)
        THEN [type |-> "entry", settled |-> FALSE, value |-> Undefined]
        ELSE map[k]]

\* create that stores nothing
create_StoresNothing(map, webviewId, path) == map

\* the map after create(webviewId, path)
create(map, webviewId, path) ==
    IF get(map, webviewId, path) # Undefined
    THEN map
    ELSE [k \in DOMAIN map \cup {_key(webviewId, path)} |->
            IF k = _key(webviewId, path)
            THEN [type |-> "entry", settled |-> FALSE, value |-> Undefined]
            ELSE map[k]]

\* a promise that takes the value of every call of its resolve function
PromiseResolve_Overwrites(entry, result) == [entry EXCEPT !.settled = TRUE, !.value = result]

\* calling the resolve function of a promise: no effect once the promise is settled
PromiseResolve(entry, result) ==
    IF entry.settled THEN entry ELSE [entry EXCEPT !.settled = TRUE, !.value = result]

\* resolve that keeps the result of an unknown request for a later one
resolve_KeepsOrphan(map, webviewId, path, result) ==
    IF get(map, webviewId, path) = Undefined
    THEN [map |-> [k \in DOMAIN map \cup {_key(webviewId, path)} |->
                    IF k = _key(webviewId, path)
                    THEN [type |-> "entry", settled |-> TRUE, value |-> result]
                    ELSE map[k]],
          returned |-> FALSE]
    ELSE [map |-> [map EXCEPT ![_key(webviewId, path)] = PromiseResolve(@, result)],
          returned |-> TRUE]

\* resolve that stores a new settled promise in place of the entry
resolve_Resettles(map, webviewId, path, result) ==
    IF get(map, webviewId, path) = Undefined
    THEN [map |-> map, returned |-> FALSE]
    ELSE [map |-> [map EXCEPT ![_key(webviewId, path)] =
                        [type |-> "entry", settled |-> TRUE, value |-> result]],
          returned |-> TRUE]

\* resolve(webviewId, path, result): the map afterwards and the boolean returned
resolve(map, webviewId, path, result) ==
    IF get(map, webviewId, path) = Undefined
    THEN [map |-> map, returned |-> FALSE]
    ELSE [map |-> [map EXCEPT ![_key(webviewId, path)] = PromiseResolve(@, result)],
          returned |-> TRUE]

EmptyMap == [k \in {} |-> Undefined]

----------------------------------------------------------------------------
(* Requests and messages *)

\* the fetch listener: which handler answers a request for url
IsResourceRequest(url) ==
    Origin(url) = Origin(SelfOrigin) /\ StartsWith(url.pathname, resourceRoot \o <<"/">>)

IsLocalhostRequest(url) ==
    Origin(url) # Origin(SelfOrigin) /\ IsLocalhostHost(url.host)

\* const resourcePath = requestUrl.pathname.replace(resourceRoot, '')
resourcePath(requestUrl) == StringReplace(requestUrl.pathname, resourceRoot, <<>>)

\* the inputs of fetch events: the client id and the URL of the request. The content
\* frame of IdA asks for both kinds of URL, the content frame of IdAB for the resource.
FetchInputs ==
    <<[clientId |-> 2, url |-> ResourceUrl],
      [clientId |-> 2, url |-> LocalhostUrl],
      [clientId |-> 4, url |-> ResourceUrl],
      [clientId |-> 5, url |-> ResourceUrl],
      [clientId |-> 5, url |-> LocalhostUrl],
      [clientId |-> NoClientId, url |-> ResourceUrl],
      [clientId |-> NoClientId, url |-> LocalhostUrl]>>

\* the constants a handler computes from its event once its client is known:
\* webviewId, and resourcePath (processResourceRequest) or origin (processLocalhostRequest)
Locals ==
    [i \in DOMAIN FetchInputs |->
        [handler |-> IF IsResourceRequest(FetchInputs[i].url)
                     THEN "processResourceRequest" ELSE "processLocalhostRequest",
         webviewId |-> IF FetchInputs[i].clientId \in ClientIds
                       THEN WebviewIdOfClient[FetchInputs[i].clientId].id ELSE <<>>,
         key |-> IF IsResourceRequest(FetchInputs[i].url)
                 THEN resourcePath(FetchInputs[i].url) ELSE Origin(FetchInputs[i].url)]]

\* the fetch event, the handler and the locals of a request
Event(req) == FetchInputs[req.input]
Handler(req) == Locals[req.input].handler
WebviewId(req) == Locals[req.input].webviewId
StoreKey(req) == Locals[req.input].key

ResourcePaths == {<<"/", "x">>}
Bodies == {"d1"}
Mimes == {"m1"}
Statuses == {200, 404}

ResourceMessages ==
    {[channel |-> "did-load-resource",
      data |-> [path |-> p, status |-> st, data |-> d, mime |-> m]] :
        p \in ResourcePaths, st \in Statuses, d \in Bodies, m \in Mimes}

Locations == {Undefined, Str(<<>>), Str(RedirectOrigin)}

LocalhostMessages ==
    {[channel |-> "did-load-localhost",
      data |-> [origin |-> Origin(LocalhostUrl), location |-> l]] : l \in Locations}

OtherMessages == {[channel |-> "other"]}

Messages == ResourceMessages \cup LocalhostMessages \cup OtherMessages

----------------------------------------------------------------------------
(* Result materialisation *)

resolveResourceEntry(entry) ==
    IF Falsy(entry)
    THEN notFoundResponse
    ELSE [type |-> "response", status |-> 200, body |-> entry.body, contentType |-> entry.mime]

\* a replacement that leaves out the group $1
RedirectLocation_NoGroup(requestUrl, redirectOrigin) ==
    LET url == Href(requestUrl)
        o == Origin(requestUrl)
    IN  IF StartsWith(url, o) /\ (Len(url) = Len(o) \/ url[Len(o) + 1] = "/")
        THEN redirectOrigin \o SubSeq(url, Len(o) + 2, Len(url))
        ELSE url

\* event.request.url.replace(new RegExp(`^${requestUrl.origin}(/|$)`), `${redirectOrigin}$1`)
RedirectLocation(requestUrl, redirectOrigin) ==
    LET url == Href(requestUrl)
        o == Origin(requestUrl)
    IN  IF StartsWith(url, o) /\ (Len(url) = Len(o) \/ url[Len(o) + 1] = "/")
        THEN redirectOrigin \o SubSeq(url, Len(o) + 1, Len(url))
        ELSE url

resolveRedirect(requestUrl, redirectOrigin) ==
    IF Falsy(redirectOrigin)
    THEN NetworkFetch(Href(requestUrl))
    ELSE [type |-> "response", status |-> 302,
          location |-> RedirectLocation(requestUrl, redirectOrigin.str)]

----------------------------------------------------------------------------
Init ==
    /\ clients = ClientIds
    /\ resourceRequestStore = EmptyMap
    /\ localhostRequestStore = EmptyMap
    /\ requests = <<>>
    /\ posted = {}
    /\ console = <<>>

\* a window client goes away; client ids are never reused
ClientDisconnect(c) ==
    /\ c \in clients \cap Closable
    /\ clients' = clients \ {c}
    /\ UNCHANGED <<resourceRequestStore, localhostRequestStore, requests, posted, console>>

\* the fetch listener calls the handler for the request, which suspends at clients.get.
\* A handler does nothing before that await, so the order in which fetch events arrive
\* is not observable: requests are listed in the order of FetchInputs.
FetchEvent(i) ==
    /\ Len(requests) < MaxRequests
    /\ requests # <<>> => requests[Len(requests)].input <= i
    /\ IsResourceRequest(FetchInputs[i].url) \/ IsLocalhostRequest(FetchInputs[i].url)
    /\ requests' = Append(requests, [input |-> i, pc |-> "clients.get", response |-> Pending])
    /\ UNCHANGED <<clients, resourceRequestStore, localhostRequestStore, posted, console>>

\* the handler of request r ends at the return (or throw) named by pc
Done(r, pc, response) == [requests EXCEPT ![r].pc = pc, ![r].response = response]

Goto(r, pc) == [requests EXCEPT ![r].pc = pc]

\* processResourceRequest from the result of clients.get to the await of getOuterIframeClient
ResourceGotClient(r) ==
    /\ r \in DOMAIN requests
    /\ Handler(requests[r]) = "processResourceRequest"
    /\ requests[r].pc = "clients.get"
    /\ IF Event(requests[r]).clientId \notin clients
       THEN /\ console' = <<"Could not find inner client for request">>
            /\ requests' = Done(r, "no client", notFoundResponse)
       ELSE IF WebviewIdOfClient[Event(requests[r]).clientId].throws
       THEN /\ requests' = Done(r, "threw", TypeError)
            /\ UNCHANGED console
       ELSE /\ requests' = Goto(r, "matchAll")
            /\ UNCHANGED console
    /\ UNCHANGED <<clients, resourceRequestStore, localhostRequestStore, posted>>

\* a handler without the lookup of an existing entry: it notifies the parent every time
ResourceGotParent_AlwaysNotifies(r) ==
    /\ r \in DOMAIN requests
    /\ Handler(requests[r]) = "processResourceRequest"
    /\ requests[r].pc = "matchAll"
    /\ \E parentClient \in getOuterIframeClient(WebviewId(requests[r])) :
        IF parentClient = 0
        THEN /\ console' = <<"Could not find parent client for request">>
             /\ requests' = Done(r, "no parent client", notFoundResponse)
             /\ UNCHANGED <<resourceRequestStore, posted>>
        ELSE /\ posted' = posted \cup
                    {[by |-> r, client |-> parentClient,
                      data |-> [channel |-> "load-resource", path |-> StoreKey(requests[r])]]}
             /\ resourceRequestStore' =
                    create(resourceRequestStore, WebviewId(requests[r]), StoreKey(requests[r]))
             /\ requests' = Goto(r, "create.promise")
             /\ UNCHANGED console
    /\ UNCHANGED <<clients, localhostRequestStore>>

\* processResourceRequest from the result of matchAll to the await of the entry
ResourceGotParent(r) ==
    /\ r \in DOMAIN requests
    /\ Handler(requests[r]) = "processResourceRequest"
    /\ requests[r].pc = "matchAll"
    /\ \E parentClient \in getOuterIframeClient(WebviewId(requests[r])) :
        IF parentClient = 0
        THEN /\ console' = <<"Could not find parent client for request">>
             /\ requests' = Done(r, "no parent client", notFoundResponse)
             /\ UNCHANGED <<resourceRequestStore, posted>>
        ELSE IF get(resourceRequestStore, WebviewId(requests[r]), StoreKey(requests[r])) # Undefined
        THEN /\ requests' = Goto(r, "existing.promise")
             /\ UNCHANGED <<resourceRequestStore, posted, console>>
        ELSE /\ posted' = posted \cup
                    {[by |-> r, client |-> parentClient,
                      data |-> [channel |-> "load-resource", path |-> StoreKey(requests[r])]]}
             /\ resourceRequestStore' =
                    create(resourceRequestStore, WebviewId(requests[r]), StoreKey(requests[r]))
             /\ requests' = Goto(r, "create.promise")
             /\ UNCHANGED console
    /\ UNCHANGED <<clients, localhostRequestStore>>

\* a continuation that gives up on an entry that is not settled and answers 404
ResourceSettled_TimesOut(r) ==
    /\ r \in DOMAIN requests
    /\ Handler(requests[r]) = "processResourceRequest"
    /\ requests[r].pc \in {"existing.promise", "create.promise"}
    /\ LET entry == get(resourceRequestStore, WebviewId(requests[r]), StoreKey(requests[r]))
       IN  /\ entry # Undefined
           /\ requests' = Done(r, "resolved",
                    IF entry.settled THEN resolveResourceEntry(entry.value)
                    ELSE notFoundResponse)
    /\ UNCHANGED <<clients, resourceRequestStore, localhostRequestStore, posted, console>>

\* the continuation .then(resolveResourceEntry) of a settled entry
ResourceSettled(r) ==
    /\ r \in DOMAIN requests
    /\ Handler(requests[r]) = "processResourceRequest"
    /\ requests[r].pc \in {"existing.promise", "create.promise"}
    /\ LET entry == get(resourceRequestStore, WebviewId(requests[r]), StoreKey(requests[r]))
       IN  /\ entry # Undefined
           /\ entry.settled
           /\ requests' = Done(r, "resolved", resolveResourceEntry(entry.value))
    /\ UNCHANGED <<clients, resourceRequestStore, localhostRequestStore, posted, console>>

\* processLocalhostRequest from the result of clients.get to the await of getOuterIframeClient
LocalhostGotClient(r) ==
    /\ r \in DOMAIN requests
    /\ Handler(requests[r]) = "processLocalhostRequest"
    /\ requests[r].pc = "clients.get"
    /\ IF Event(requests[r]).clientId \notin clients
       THEN requests' = Done(r, "no client", Undefined)
       ELSE IF WebviewIdOfClient[Event(requests[r]).clientId].throws
       THEN requests' = Done(r, "threw", TypeError)
       ELSE requests' = Goto(r, "matchAll")
    /\ UNCHANGED <<clients, resourceRequestStore, localhostRequestStore, posted, console>>

\* processLocalhostRequest from the result of matchAll to the await of the entry
LocalhostGotParent(r) ==
    /\ r \in DOMAIN requests
    /\ Handler(requests[r]) = "processLocalhostRequest"
    /\ requests[r].pc = "matchAll"
    /\ \E parentClient \in getOuterIframeClient(WebviewId(requests[r])) :
        IF parentClient = 0
        THEN /\ console' = <<"Could not find parent client for request">>
             /\ requests' = Done(r, "no parent client", notFoundResponse)
             /\ UNCHANGED <<localhostRequestStore, posted>>
        ELSE IF get(localhostRequestStore, WebviewId(requests[r]), StoreKey(requests[r])) # Undefined
        THEN /\ requests' = Goto(r, "existing.promise")
             /\ UNCHANGED <<localhostRequestStore, posted, console>>
        ELSE /\ posted' = posted \cup
                    {[by |-> r, client |-> parentClient,
                      data |-> [channel |-> "load-localhost", origin |-> StoreKey(requests[r])]]}
             /\ localhostRequestStore' =
                    create(localhostRequestStore, WebviewId(requests[r]), StoreKey(requests[r]))
             /\ requests' = Goto(r, "create.promise")
             /\ UNCHANGED console
    /\ UNCHANGED <<clients, resourceRequestStore>>

\* the continuation .then(resolveRedirect) of a settled entry
LocalhostSettled(r) ==
    /\ r \in DOMAIN requests
    /\ Handler(requests[r]) = "processLocalhostRequest"
    /\ requests[r].pc \in {"existing.promise", "create.promise"}
    /\ LET entry == get(localhostRequestStore, WebviewId(requests[r]), StoreKey(requests[r]))
       IN  /\ entry # Undefined
           /\ entry.settled
           /\ requests' = Done(r, "resolved", resolveRedirect(Event(requests[r]).url, entry.value))
    /\ UNCHANGED <<clients, resourceRequestStore, localhostRequestStore, posted, console>>

\* a result that does not look at the status
ResourceResult_AnyStatus(data) == [type |-> "object", body |-> data.data, mime |-> data.mime]

\* the value a did-load-resource message resolves the entry with
ResourceResult(data) ==
    IF data.status = 200
    THEN [type |-> "object", body |-> data.data, mime |-> data.mime]
    ELSE Undefined

\* a listener that takes a message with an unknown channel for a cancellation and
\* settles every pending resource entry with undefined
MessageListener_UnknownCancels(source, message) ==
    IF message.channel = "did-load-resource"
    THEN IF WebviewIdOfClient[source].throws
         THEN [resourceRequestStore |-> resourceRequestStore,
               localhostRequestStore |-> localhostRequestStore,
               console |-> <<"Uncaught TypeError">>]
         ELSE LET res == resolve(resourceRequestStore, WebviewIdOfClient[source].id,
                                 message.data.path, ResourceResult(message.data))
              IN  [resourceRequestStore |-> res.map,
                   localhostRequestStore |-> localhostRequestStore,
                   console |-> IF res.returned THEN console
                               ELSE <<"Could not resolve unknown resource", message.data.path>>]
    ELSE IF message.channel = "did-load-localhost"
    THEN IF WebviewIdOfClient[source].throws
         THEN [resourceRequestStore |-> resourceRequestStore,
               localhostRequestStore |-> localhostRequestStore,
               console |-> <<"Uncaught TypeError">>]
         ELSE LET res == resolve(localhostRequestStore, WebviewIdOfClient[source].id,
                                 message.data.origin, message.data.location)
              IN  [resourceRequestStore |-> resourceRequestStore,
                   localhostRequestStore |-> res.map,
                   console |-> IF res.returned THEN console
                               ELSE <<"Could not resolve unknown localhost", message.data.origin>>]
    ELSE [resourceRequestStore |->
                [k \in DOMAIN resourceRequestStore |->
                    PromiseResolve(resourceRequestStore[k], Undefined)],
          localhostRequestStore |-> localhostRequestStore,
          console |-> <<"Unknown message">>]

\* a listener that resolves the key of a did-load-resource message in both stores
MessageListener_BothStores(source, message) ==
    IF message.channel = "did-load-resource"
    THEN IF WebviewIdOfClient[source].throws
         THEN [resourceRequestStore |-> resourceRequestStore,
               localhostRequestStore |-> localhostRequestStore,
               console |-> <<"Uncaught TypeError">>]
         ELSE LET res == resolve(resourceRequestStore, WebviewIdOfClient[source].id,
                                 message.data.path, ResourceResult(message.data))
                  other == resolve(localhostRequestStore, WebviewIdOfClient[source].id,
                                   message.data.path, ResourceResult(message.data))
              IN  [resourceRequestStore |-> res.map,
                   localhostRequestStore |-> other.map,
                   console |-> IF res.returned THEN console
                               ELSE <<"Could not resolve unknown resource", message.data.path>>]
    ELSE IF message.channel = "did-load-localhost"
    THEN IF WebviewIdOfClient[source].throws
         THEN [resourceRequestStore |-> resourceRequestStore,
               localhostRequestStore |-> localhostRequestStore,
               console |-> <<"Uncaught TypeError">>]
         ELSE LET res == resolve(localhostRequestStore, WebviewIdOfClient[source].id,
                                 message.data.origin, message.data.location)
              IN  [resourceRequestStore |-> resourceRequestStore,
                   localhostRequestStore |-> res.map,
                   console |-> IF res.returned THEN console
                               ELSE <<"Could not resolve unknown localhost", message.data.origin>>]
    ELSE [resourceRequestStore |-> resourceRequestStore,
          localhostRequestStore |-> localhostRequestStore,
          console |-> <<"Unknown message">>]

\* the message listener: the stores and the console after it has handled message from source
MessageListener(source, message) ==
    IF message.channel = "did-load-resource"
    THEN IF WebviewIdOfClient[source].throws
         THEN [resourceRequestStore |-> resourceRequestStore,
               localhostRequestStore |-> localhostRequestStore,
               console |-> <<"Uncaught TypeError">>]
         ELSE LET res == resolve(resourceRequestStore, WebviewIdOfClient[source].id,
                                 message.data.path, ResourceResult(message.data))
              IN  [resourceRequestStore |-> res.map,
                   localhostRequestStore |-> localhostRequestStore,
                   console |-> IF res.returned THEN console
                               ELSE <<"Could not resolve unknown resource", message.data.path>>]
    ELSE IF message.channel = "did-load-localhost"
    THEN IF WebviewIdOfClient[source].throws
         THEN [resourceRequestStore |-> resourceRequestStore,
               localhostRequestStore |-> localhostRequestStore,
               console |-> <<"Uncaught TypeError">>]
         ELSE LET res == resolve(localhostRequestStore, WebviewIdOfClient[source].id,
                                 message.data.origin, message.data.location)
              IN  [resourceRequestStore |-> resourceRequestStore,
                   localhostRequestStore |-> res.map,
                   console |-> IF res.returned THEN console
                               ELSE <<"Could not resolve unknown localhost", message.data.origin>>]
    ELSE [resourceRequestStore |-> resourceRequestStore,
          localhostRequestStore |-> localhostRequestStore,
          console |-> <<"Unknown message">>]

\* a connected client sends a message and the message listener handles it
OnMessage(source, message) ==
    /\ source \in clients \cap MessageSources
    /\ LET after == MessageListener(source, message)
       IN  /\ resourceRequestStore' = after.resourceRequestStore
           /\ localhostRequestStore' = after.localhostRequestStore
           /\ console' = after.console
    /\ UNCHANGED <<clients, requests, posted>>

Next ==
    \/ \E c \in ClientIds : ClientDisconnect(c)
    \/ \E i \in DOMAIN FetchInputs : FetchEvent(i)
    \/ \E r \in 1..MaxRequests : ResourceGotClient(r)
    \/ \E r \in 1..MaxRequests : ResourceGotParent(r)
    \/ \E r \in 1..MaxRequests : ResourceSettled(r)
    \/ \E r \in 1..MaxRequests : LocalhostGotClient(r)
    \/ \E r \in 1..MaxRequests : LocalhostGotParent(r)
    \/ \E r \in 1..MaxRequests : LocalhostSettled(r)
    \/ \E c \in MessageSources, m \in Messages : OnMessage(c, m)

Spec == Init /\ [][Next]_vars

\* The worker with the requests of the content frames that have an id and the
\* messages of the two outer frames, while no client goes away.
FairNext ==
    \/ \E i \in 1..3 : FetchEvent(i)
    \/ \E r \in 1..MaxRequests : ResourceGotClient(r)
    \/ \E r \in 1..MaxRequests : ResourceGotParent(r)
    \/ \E r \in 1..MaxRequests : ResourceSettled(r)
    \/ \E r \in 1..MaxRequests : LocalhostGotClient(r)
    \/ \E r \in 1..MaxRequests : LocalhostGotParent(r)
    \/ \E r \in 1..MaxRequests : LocalhostSettled(r)
    \/ \E c \in {1, 3}, m \in ResourceMessages \cup LocalhostMessages : OnMessage(c, m)

\* the continuation of a settled promise is a microtask, which the event loop runs
FairSpec ==
    /\ Init /\ [][FairNext]_vars
    /\ \A r \in 1..MaxRequests :
            WF_vars(ResourceSettled(r)) /\ WF_vars(LocalhostSettled(r))

----------------------------------------------------------------------------
(* Vocabulary of the properties *)

StoreOf(req) ==
    IF Handler(req) = "processResourceRequest" THEN resourceRequestStore
    ELSE localhostRequestStore

\* the entry of the store that request r looks up
EntryOf(r) == get(StoreOf(requests[r]), WebviewId(requests[r]), StoreKey(requests[r]))

\* request r is past the store check: it awaits an entry or has returned its value
PassedCheck(r) == requests[r].pc \in {"existing.promise", "create.promise", "resolved"}

Awaiting(r) == requests[r].pc \in {"existing.promise", "create.promise"}

\* requests r1 and r2 are for the same session and key of the same flow
SameKey(r1, r2) ==
    /\ Handler(requests[r1]) = Handler(requests[r2])
    /\ WebviewId(requests[r1]) = WebviewId(requests[r2])
    /\ StoreKey(requests[r1]) = StoreKey(requests[r2])

\* the advisory that the handler of r sends for its key
AdvisoryFor(r) ==
    IF Handler(requests[r]) = "processResourceRequest"
    THEN [channel |-> "load-resource", path |-> StoreKey(requests[r])]
    ELSE [channel |-> "load-localhost", origin |-> StoreKey(requests[r])]

\* the answer that request r gives for the value v of its entry
Materialize(r, v) ==
    IF Handler(requests[r]) = "processResourceRequest"
    THEN resolveResourceEntry(v)
    ELSE resolveRedirect(Event(requests[r]).url, v)

----------------------------------------------------------------------------
(* C1 Dedup: whenever requests of one session for one key are past the store *)
(* check, exactly one advisory has been sent for that session and key, it   *)
(* carries that key, and every one of the requests that has completed did   *)
(* so with the materialisation of the one value the entry was resolved with.*)
C1_Dedup ==
    \A r \in DOMAIN requests :
        PassedCheck(r) =>
            /\ Cardinality({m \in posted : SameKey(m.by, r)}) = 1
            /\ \A m \in posted : SameKey(m.by, r) => m.data = AdvisoryFor(r)
            /\ requests[r].pc = "resolved" =>
                    /\ EntryOf(r).settled
                    /\ requests[r].response = Materialize(r, EntryOf(r).value)
            /\ \A r2 \in DOMAIN requests :
                    (SameKey(r, r2) /\ requests[r].pc = "resolved" /\ requests[r2].pc = "resolved")
                        => requests[r].response = requests[r2].response

\* two requests of one session for one key, handled concurrently, both answered 200
\* from a single advisory
C1_Witness ==
    /\ Len(requests) = 2
    /\ SameKey(1, 2)
    /\ requests[1].pc = "resolved" /\ requests[2].pc = "resolved"
    /\ requests[1].response.status = 200 /\ requests[2].response.status = 200
    /\ Cardinality(posted) = 1

----------------------------------------------------------------------------
(* C2 Session isolation: requests of different sessions for the same key    *)
(* never look up the same store key, and the message listener, handling any *)
(* message from a client of one session, leaves the entry of every request  *)
(* of another session as it is (a request completes from its entry alone).  *)
C2_DistinctKeys ==
    \A r1, r2 \in DOMAIN requests :
        (/\ PassedCheck(r1) /\ PassedCheck(r2)
         /\ Handler(requests[r1]) = Handler(requests[r2])
         /\ StoreKey(requests[r1]) = StoreKey(requests[r2])
         /\ WebviewId(requests[r1]) # WebviewId(requests[r2]))
        => _key(WebviewId(requests[r1]), StoreKey(requests[r1]))
                # _key(WebviewId(requests[r2]), StoreKey(requests[r2]))

\* the entry of request r after the message listener has handled message from source
EntryAfterMessage(r, source, message) ==
    IF Handler(requests[r]) = "processResourceRequest"
    THEN get(MessageListener(source, message).resourceRequestStore,
             WebviewId(requests[r]), StoreKey(requests[r]))
    ELSE get(MessageListener(source, message).localhostRequestStore,
             WebviewId(requests[r]), StoreKey(requests[r]))

C2_MessageOfOtherSession ==
    \A r \in DOMAIN requests :
        PassedCheck(r) =>
            \A source \in clients \cap MessageSources :
                WebviewIdOfClient[source].id # WebviewId(requests[r]) =>
                    \A message \in Messages :
                        EntryAfterMessage(r, source, message) = EntryOf(r)

C2_SessionIsolation == [](C2_DistinctKeys /\ C2_MessageOfOtherSession)

\* a request of IdA was answered from its entry while a request of IdAB for the same
\* key still waits on an entry that is not settled
C2_Witness ==
    \E r1, r2 \in DOMAIN requests :
        /\ Handler(requests[r1]) = Handler(requests[r2])
        /\ StoreKey(requests[r1]) = StoreKey(requests[r2])
        /\ WebviewId(requests[r1]) = IdA /\ WebviewId(requests[r2]) = IdAB
        /\ requests[r1].pc = "resolved"
        /\ Awaiting(r2) /\ ~EntryOf(r2).settled

----------------------------------------------------------------------------
(* C3 Every advisory sent on behalf of a request of session S went to a     *)
(* client whose URL path is "/" and whose id parameter equals S.           *)
C3_AdvisoryToOwnController ==
    \A m \in posted :
        /\ ClientUrl[m.client].pathname = <<"/">>
        /\ ~WebviewIdOfClient[m.client].throws
        /\ WebviewIdOfClient[m.client].id = WebviewId(requests[m.by])

----------------------------------------------------------------------------
(* C4 Orphan resolve: when a client of session S sends a resource-loaded or *)
(* localhost-loaded message for a key K and the store holds no entry for    *)
(* (S, K), the listener leaves both stores as they are and logs that it     *)
(* could not resolve (resolve returned false, nothing was thrown); and a    *)
(* store never holds an entry that no request created with an advisory, so  *)
(* a later request for (S, K) finds none and sends its own.                 *)
Unchanged(console_) ==
    [resourceRequestStore |-> resourceRequestStore,
     localhostRequestStore |-> localhostRequestStore,
     console |-> console_]

\* the keys of the entries that requests created when they sent their advisories
AdvisedKeys(handler) ==
    {_key(WebviewId(requests[m.by]), StoreKey(requests[m.by])) :
        m \in {n \in posted : Handler(requests[n.by]) = handler}}

C4_OrphanEffect ==
    /\ \A source \in clients \cap MessageSources, message \in ResourceMessages :
            (/\ ~WebviewIdOfClient[source].throws
             /\ get(resourceRequestStore, WebviewIdOfClient[source].id, message.data.path)
                    = Undefined)
            => MessageListener(source, message)
                    = Unchanged(<<"Could not resolve unknown resource", message.data.path>>)
    /\ \A source \in clients \cap MessageSources, message \in LocalhostMessages :
            (/\ ~WebviewIdOfClient[source].throws
             /\ get(localhostRequestStore, WebviewIdOfClient[source].id, message.data.origin)
                    = Undefined)
            => MessageListener(source, message)
                    = Unchanged(<<"Could not resolve unknown localhost", message.data.origin>>)
    /\ DOMAIN resourceRequestStore \subseteq AdvisedKeys("processResourceRequest")
    /\ DOMAIN localhostRequestStore \subseteq AdvisedKeys("processLocalhostRequest")

C4_OrphanResolve == []C4_OrphanEffect

\* the listener has logged an unknown resource, and a request that came to the store
\* check found no entry, sent its advisory and waits on an entry that is not settled
C4_Witness ==
    /\ console = <<"Could not resolve unknown resource", <<"/", "x">>>>
    /\ Len(requests) = 1
    /\ requests[1].pc = "create.promise"
    /\ Handler(requests[1]) = "processResourceRequest"
    /\ ~EntryOf(1).settled
    /\ Cardinality(posted) = 1

----------------------------------------------------------------------------
(* C5 Under fairness of the continuations, a request that awaits an entry   *)
(* settled with a value V is eventually answered from that entry, with the  *)
(* materialisation of V.                                                    *)
EntryValues ==
    {Undefined} \cup {ResourceResult(m.data) : m \in ResourceMessages} \cup Locations

SettledWith(r, v) ==
    /\ r \in DOMAIN requests
    /\ Awaiting(r)
    /\ EntryOf(r).settled
    /\ EntryOf(r).value = v

ReleasedWith(r, v) ==
    /\ r \in DOMAIN requests
    /\ requests[r].pc = "resolved"
    /\ EntryOf(r).value = v
    /\ requests[r].response = Materialize(r, EntryOf(r).value)

C5_EventuallyReleased ==
    \A r \in 1..MaxRequests : \A v \in EntryValues :
        SettledWith(r, v) ~> ReleasedWith(r, v)

\* two requests await one entry, which a message has settled
C5_Witness ==
    /\ Len(requests) = 2
    /\ SameKey(1, 2)
    /\ Awaiting(1) /\ Awaiting(2)
    /\ EntryOf(1).settled

----------------------------------------------------------------------------
(* C6 Store uniqueness and idempotent lookup: each store holds exactly one  *)
(* entry for every (session, key) an advisory was sent for and none for any *)
(* other; a request that is past the store check finds its entry in every   *)
(* later state; and create on a store that has the entry returns the store  *)
(* as it is, while create on a store without it adds an entry that get and  *)
(* a repeated create then return.                                           *)
AdvisedPairs(handler) ==
    {<<WebviewId(requests[m.by]), StoreKey(requests[m.by])>> :
        m \in {n \in posted : Handler(requests[n.by]) = handler}}

IdempotentIn(map, webviewId, path) ==
    /\ get(create(map, webviewId, path), webviewId, path) # Undefined
    /\ create(create(map, webviewId, path), webviewId, path) = create(map, webviewId, path)
    /\ get(map, webviewId, path) # Undefined =>
            /\ create(map, webviewId, path) = map
            /\ get(create(map, webviewId, path), webviewId, path) = get(map, webviewId, path)

C6_OneEntryPerKey ==
    /\ Cardinality(DOMAIN resourceRequestStore)
            = Cardinality(AdvisedPairs("processResourceRequest"))
    /\ Cardinality(DOMAIN localhostRequestStore)
            = Cardinality(AdvisedPairs("processLocalhostRequest"))
    /\ \A r \in DOMAIN requests :
            /\ PassedCheck(r) => EntryOf(r) # Undefined
            /\ (requests[r].pc = "matchAll" /\ EntryOf(r) = Undefined) =>
                    \A r2 \in DOMAIN requests : SameKey(r, r2) => ~PassedCheck(r2)
            /\ requests[r].pc \in {"matchAll", "existing.promise", "create.promise", "resolved"} =>
                    IdempotentIn(StoreOf(requests[r]), WebviewId(requests[r]), StoreKey(requests[r]))

C6_StoreUniqueness == []C6_OneEntryPerKey

\* both sessions have an entry for the same path, one of them settled and delivered
C6_Witness ==
    /\ Cardinality(DOMAIN resourceRequestStore) = 2
    /\ \E r \in DOMAIN requests :
            /\ Handler(requests[r]) = "processResourceRequest"
            /\ requests[r].pc = "resolved"
            /\ EntryOf(r).settled

----------------------------------------------------------------------------
(* C7 No controller attached: when the controller lookup of a request of    *)
(* session S completes while no client with path "/" and id S is connected, *)
(* the request is answered 404, no advisory is sent and no entry is created.*)
OwnControllerConnected(r) ==
    \E c \in clients :
        /\ ClientUrl[c].pathname = <<"/">>
        /\ ~WebviewIdOfClient[c].throws
        /\ WebviewIdOfClient[c].id = WebviewId(requests[r])

C7_LookupStep ==
    \A r \in DOMAIN requests :
        (/\ requests[r].pc = "matchAll"
         /\ requests'[r].pc # "matchAll"
         /\ ~OwnControllerConnected(r))
        => /\ requests'[r].response = notFoundResponse
           /\ posted' = posted
           /\ resourceRequestStore' = resourceRequestStore
           /\ localhostRequestStore' = localhostRequestStore

C7_NoControllerNotFound == [][C7_LookupStep]_vars

----------------------------------------------------------------------------
(* C8 Unknown peer: a request whose client is not found is answered 404 in  *)
(* the resource flow and with the network attempt of the original request   *)
(* in the redirect-check flow, and it sends no advisory.                    *)
C8_UnknownPeer ==
    \A r \in DOMAIN requests :
        requests[r].pc = "no client" =>
            /\ requests[r].response =
                    IF Handler(requests[r]) = "processResourceRequest"
                    THEN notFoundResponse
                    ELSE NetworkFetch(Href(Event(requests[r]).url))
            /\ \A m \in posted : m.by # r

----------------------------------------------------------------------------
(* C9 Resource result mapping: the advisory of a resource request carries   *)
(* the request path without the resource root; a resource-loaded message of *)
(* the session for that path settles the pending entry so that it           *)
(* materialises to 200 with the data and the mime type of the message when  *)
(* the status is 200 and to the not-found response otherwise; and a request *)
(* answered from its entry carries the materialisation of the entry.        *)
ExpectedResourceResponse(data) ==
    IF data.status = 200
    THEN [type |-> "response", status |-> 200, body |-> data.data, contentType |-> data.mime]
    ELSE [type |-> "response", status |-> 404, body |-> "Not Found"]

C9_ResourceMapping ==
    /\ \A m \in posted :
            m.data.channel = "load-resource" =>
                resourceRoot \o m.data.path = Event(requests[m.by]).url.pathname
    /\ \A r \in DOMAIN requests :
            Handler(requests[r]) = "processResourceRequest" =>
                /\ requests[r].pc = "resolved" =>
                        requests[r].response = resolveResourceEntry(EntryOf(r).value)
                /\ (Awaiting(r) /\ ~EntryOf(r).settled) =>
                        \A source \in clients \cap MessageSources, message \in ResourceMessages :
                            (/\ WebviewIdOfClient[source].id = WebviewId(requests[r])
                             /\ message.data.path = StoreKey(requests[r]))
                            => /\ EntryAfterMessage(r, source, message).settled
                               /\ resolveResourceEntry(EntryAfterMessage(r, source, message).value)
                                    = ExpectedResourceResponse(message.data)

\* a resource request answered 200 with the data and the mime type of the message
C9_Witness ==
    \E r \in DOMAIN requests :
        /\ Handler(requests[r]) = "processResourceRequest"
        /\ requests[r].pc = "resolved"
        /\ requests[r].response =
                [type |-> "response", status |-> 200, body |-> "d1", contentType |-> "m1"]

----------------------------------------------------------------------------
(* C10 Redirect result mapping: a localhost-loaded message of the session   *)
(* for the origin of the request settles the pending entry so that it       *)
(* materialises to the network attempt of the original request when the     *)
(* location is undefined or empty, and otherwise to a 302 whose Location is *)
(* the location followed by the path and the query of the request; and a    *)
(* request answered from its entry carries the materialisation of the entry.*)
ExpectedRedirectResponse(requestUrl, location) ==
    IF location = Undefined \/ location = Str(<<>>)
    THEN [type |-> "fetch", request |-> Href(requestUrl)]
    ELSE [type |-> "response", status |-> 302,
          location |-> location.str \o requestUrl.pathname \o requestUrl.search]

C10_RedirectMapping ==
    \A r \in DOMAIN requests :
        Handler(requests[r]) = "processLocalhostRequest" =>
            /\ requests[r].pc = "resolved" =>
                    requests[r].response =
                        ExpectedRedirectResponse(Event(requests[r]).url, EntryOf(r).value)
            /\ (Awaiting(r) /\ ~EntryOf(r).settled) =>
                    \A source \in clients \cap MessageSources, message \in LocalhostMessages :
                        (/\ WebviewIdOfClient[source].id = WebviewId(requests[r])
                         /\ message.data.origin = StoreKey(requests[r]))
                        => /\ EntryAfterMessage(r, source, message).settled
                           /\ EntryAfterMessage(r, source, message).value = message.data.location

\* a redirect-check request answered 302 with the replacement origin before its path and query
C10_Witness ==
    \E r \in DOMAIN requests :
        /\ Handler(requests[r]) = "processLocalhostRequest"
        /\ requests[r].pc = "resolved"
        /\ requests[r].response.type = "response"
        /\ requests[r].response.location =
                RedirectOrigin \o Event(requests[r]).url.pathname \o Event(requests[r]).url.search

\* a redirect-check request answered with the network attempt of the original request
C10_WitnessPassthrough ==
    \E r \in DOMAIN requests :
        /\ Handler(requests[r]) = "processLocalhostRequest"
        /\ requests[r].pc = "resolved"
        /\ requests[r].response = NetworkFetch(Href(Event(requests[r]).url))

----------------------------------------------------------------------------
(* C11 Unknown tag: a message whose channel is neither did-load-resource    *)
(* nor did-load-localhost is logged as 'Unknown message' and changes        *)
(* nothing: both stores are as before, so no waiting request becomes        *)
(* releasable, and the step that logs it answers no request and posts no    *)
(* advisory.                                                                *)
C11_ListenerEffect ==
    \A source \in clients \cap MessageSources, message \in OtherMessages :
        /\ MessageListener(source, message) = Unchanged(<<"Unknown message">>)
        /\ \A r \in DOMAIN requests :
                Awaiting(r) => EntryAfterMessage(r, source, message) = EntryOf(r)

C11_LogStep ==
    (console' = <<"Unknown message">> /\ console' # console)
        => UNCHANGED <<clients, resourceRequestStore, localhostRequestStore, requests, posted>>

C11_UnknownTag == []C11_ListenerEffect /\ [][C11_LogStep]_vars

\* 'Unknown message' was logged while a request waits on an entry that is not settled
C11_Witness ==
    /\ console = <<"Unknown message">>
    /\ \E r \in DOMAIN requests : Awaiting(r) /\ ~EntryOf(r).settled
    /\ Cardinality(posted) = 1

----------------------------------------------------------------------------
(* C12 Single use: when a request of session S comes to the store check for *)
(* key K (its controller found) after a request for (S, K) was answered     *)
(* from the entry and while no request waits on it any more, it finds no    *)
(* entry, sends a new advisory and waits on a new entry; the entry is gone  *)
(* already when a request for (S, K) arrives after the ones before it were  *)
(* answered.                                                                *)
C12_CheckStep ==
    \A r \in DOMAIN requests :
        (/\ requests[r].pc = "matchAll"
         /\ requests'[r].pc \in {"existing.promise", "create.promise"}
         /\ \E r2 \in DOMAIN requests : SameKey(r, r2) /\ requests[r2].pc = "resolved"
         /\ \A r3 \in DOMAIN requests : SameKey(r, r3) => ~Awaiting(r3))
        => /\ EntryOf(r) = Undefined
           /\ requests'[r].pc = "create.promise"
           /\ \E m \in posted' \ posted : m.by = r /\ m.data = AdvisoryFor(r)

\* the entry is gone by the time the later request arrives
C12_ArrivalStep ==
    Len(requests') = Len(requests) + 1 =>
        LET r == Len(requests')
        IN  (/\ \E r2 \in DOMAIN requests :
                    /\ requests[r2].input = requests'[r].input
                    /\ requests[r2].pc = "resolved"
             /\ \A r3 \in DOMAIN requests :
                    requests[r3].input = requests'[r].input => ~Awaiting(r3))
            => get(StoreOf(requests'[r]), WebviewId(requests'[r]), StoreKey(requests'[r]))
                    = Undefined

C12_SingleUse == [][C12_ArrivalStep /\ C12_CheckStep]_vars

----------------------------------------------------------------------------
(* C13 Late attach: a request that comes to the store check (its controller *)
(* found) while its entry exists and is settled with V joins that entry in  *)
(* a step that posts nothing and changes no store; a request that joined an *)
(* entry has never sent an advisory; and it is eventually answered with the *)
(* materialisation of V.                                                    *)
C13_CheckStep ==
    \A r \in DOMAIN requests :
        (/\ requests[r].pc = "matchAll"
         /\ requests'[r].pc \notin {"matchAll", "no parent client"}
         /\ EntryOf(r) # Undefined
         /\ EntryOf(r).settled)
        => /\ requests'[r].pc = "existing.promise"
           /\ UNCHANGED <<posted, resourceRequestStore, localhostRequestStore>>

C13_NoAdvisory ==
    \A r \in DOMAIN requests :
        requests[r].pc = "existing.promise" => \A m \in posted : m.by # r

LateAttached(r, v) ==
    /\ r \in DOMAIN requests
    /\ requests[r].pc = "existing.promise"
    /\ EntryOf(r).settled
    /\ EntryOf(r).value = v

AnsweredWithout(r, v) ==
    /\ r \in DOMAIN requests
    /\ requests[r].pc = "resolved"
    /\ EntryOf(r).value = v
    /\ requests[r].response = Materialize(r, EntryOf(r).value)
    /\ \A m \in posted : m.by # r

C13_LateAttach ==
    /\ [][C13_CheckStep]_vars
    /\ []C13_NoAdvisory
    /\ \A r \in 1..MaxRequests : \A v \in EntryValues :
            LateAttached(r, v) ~> AnsweredWithout(r, v)

\* a request was answered 200 from its entry, and a second request for the same key that
\* came to the store check afterwards was answered 200 too, with one advisory in all
C13_Witness ==
    /\ Len(requests) = 2
    /\ SameKey(1, 2)
    /\ requests[1].pc = "resolved" /\ requests[2].pc = "resolved"
    /\ requests[2].response.status = 200
    /\ posted = {[by |-> 1, client |-> 1, data |-> AdvisoryFor(1)]}

----------------------------------------------------------------------------
(* C14 Write-once: an entry that is settled with V stays in its store,      *)
(* settled with V, in every step, whatever resolve messages arrive; and     *)
(* every request answered from an entry, before or after further resolve    *)
(* messages, carries the materialisation of that V.                         *)
StaysSettled(map, map_) ==
    \A k \in DOMAIN map :
        map[k].settled => (k \in DOMAIN map_ /\ map_[k] = map[k])

C14_Step ==
    /\ resourceRequestStore' # resourceRequestStore =>
            StaysSettled(resourceRequestStore, resourceRequestStore')
    /\ localhostRequestStore' # localhostRequestStore =>
            StaysSettled(localhostRequestStore, localhostRequestStore')

C14_Delivered ==
    \A r \in DOMAIN requests :
        requests[r].pc = "resolved" =>
            /\ EntryOf(r).settled
            /\ requests[r].response = Materialize(r, EntryOf(r).value)
            /\ \A source \in clients \cap MessageSources, message \in Messages :
                    EntryAfterMessage(r, source, message) = EntryOf(r)

C14_WriteOnce == [][C14_Step]_vars /\ []C14_Delivered

\* an entry is settled with the 200 result, one request was answered from it and one still
\* waits on it, and a resolve message of its session for its key with another value
\* would be accepted by resolve (no orphan) and leave the entry as it is
C14_Witness ==
    /\ Len(requests) = 2
    /\ SameKey(1, 2)
    /\ Handler(requests[1]) = "processResourceRequest"
    /\ requests[1].pc = "resolved" /\ requests[1].response.status = 200
    /\ Awaiting(2)
    /\ \E source \in clients \cap MessageSources, message \in ResourceMessages :
            /\ WebviewIdOfClient[source].id = WebviewId(requests[1])
            /\ message.data.path = StoreKey(requests[1])
            /\ ResourceResult(message.data) # EntryOf(1).value
            /\ MessageListener(source, message) = Unchanged(console)

----------------------------------------------------------------------------
(* C15 Only the controller resolves: a did-load-resource or                 *)
(* did-load-localhost message from a connected client that is not a         *)
(* controller (its URL path is not "/") leaves every entry of both stores   *)
(* as it is, so it releases no waiting request.                             *)
C15_OnlyControllerResolves ==
    \A source \in clients \cap MessageSources :
        ClientUrl[source].pathname # <<"/">> =>
            \A message \in ResourceMessages \cup LocalhostMessages :
                /\ MessageListener(source, message).resourceRequestStore
                        = resourceRequestStore
                /\ MessageListener(source, message).localhostRequestStore
                        = localhostRequestStore

----------------------------------------------------------------------------
(* C16 No timeout or cancellation: a request that waits on an entry is not  *)
(* changed by any step taken while the entry is not settled, and the step   *)
(* that changes it answers it from the settled entry; an entry becomes      *)
(* settled only in a step of the message listener handling a resolve        *)
(* message of the entry's session for its key; no step removes an entry;    *)
(* so an answered request always has a settled entry.                       *)
Settles(map, map_, k) == ~map[k].settled /\ map_[k].settled

C16_Step ==
    /\ requests' # requests =>
            \A r \in DOMAIN requests :
                Awaiting(r) =>
                    /\ ~EntryOf(r).settled => requests'[r] = requests[r]
                    /\ requests'[r] # requests[r] =>
                            /\ requests'[r].pc = "resolved"
                            /\ requests'[r].response = Materialize(r, EntryOf(r).value)
    /\ DOMAIN resourceRequestStore \subseteq DOMAIN resourceRequestStore'
    /\ DOMAIN localhostRequestStore \subseteq DOMAIN localhostRequestStore'
    /\ \A k \in DOMAIN resourceRequestStore :
            Settles(resourceRequestStore, resourceRequestStore', k) =>
                \E source \in clients \cap MessageSources, message \in ResourceMessages :
                    /\ _key(WebviewIdOfClient[source].id, message.data.path) = k
                    /\ resourceRequestStore'
                            = MessageListener(source, message).resourceRequestStore
                    /\ UNCHANGED <<requests, posted, clients>>
    /\ \A k \in DOMAIN localhostRequestStore :
            Settles(localhostRequestStore, localhostRequestStore', k) =>
                \E source \in clients \cap MessageSources, message \in LocalhostMessages :
                    /\ _key(WebviewIdOfClient[source].id, message.data.origin) = k
                    /\ localhostRequestStore'
                            = MessageListener(source, message).localhostRequestStore
                    /\ UNCHANGED <<requests, posted, clients>>

C16_AnsweredAfterResolve ==
    \A r \in DOMAIN requests :
        /\ requests[r].pc = "resolved" => (EntryOf(r) # Undefined /\ EntryOf(r).settled)
        /\ Awaiting(r) =>
                (/\ EntryOf(r) # Undefined
                 /\ requests[r].response = Pending)

C16_NoTimeout == [][C16_Step]_vars /\ []C16_AnsweredAfterResolve

\* a request still waits on its entry, which is not settled, although the client its
\* advisory went to is gone and another request has been answered 404 meanwhile
C16_Witness ==
    /\ Len(requests) = 2
    /\ requests[1].pc = "create.promise"
    /\ ~EntryOf(1).settled
    /\ \E m \in posted : m.by = 1 /\ m.client \notin clients
    /\ requests[2].pc = "no parent client"

----------------------------------------------------------------------------
(* C17 Notify and create are one step: the step that posts an advisory for  *)
(* (S, K) starts at the controller lookup with no entry for (S, K) in the   *)
(* store and ends at the await of the entry it created; so whenever an      *)
(* advisory has been posted its store holds the entry, and resolve returns  *)
(* true for the reply of a connected controller of S to it.                 *)
IsControllerOf(c, webviewId) ==
    /\ ClientUrl[c].pathname = <<"/">>
    /\ ~WebviewIdOfClient[c].throws
    /\ WebviewIdOfClient[c].id = webviewId

C17_PostStep ==
    posted' # posted =>
        \A m \in posted' \ posted :
            /\ requests[m.by].pc = "matchAll"
            /\ EntryOf(m.by) = Undefined
            /\ requests'[m.by].pc = "create.promise"
            /\ get(IF Handler(requests[m.by]) = "processResourceRequest"
                   THEN resourceRequestStore' ELSE localhostRequestStore',
                   WebviewId(requests[m.by]), StoreKey(requests[m.by])) # Undefined

C17_EntryOfAdvisory ==
    \A m \in posted :
        /\ EntryOf(m.by) # Undefined
        /\ \A source \in clients \cap MessageSources :
                IsControllerOf(source, WebviewId(requests[m.by])) =>
                    /\ m.data.channel = "load-resource" =>
                            \A message \in ResourceMessages :
                                message.data.path = m.data.path =>
                                    resolve(resourceRequestStore, WebviewIdOfClient[source].id,
                                            message.data.path,
                                            ResourceResult(message.data)).returned
                    /\ m.data.channel = "load-localhost" =>
                            \A message \in LocalhostMessages :
                                message.data.origin = m.data.origin =>
                                    resolve(localhostRequestStore, WebviewIdOfClient[source].id,
                                            message.data.origin,
                                            message.data.location).returned

C17_NotifyCreateAtomic == [][C17_PostStep]_vars /\ []C17_EntryOfAdvisory

\* an advisory of each flow has been posted to the controller of session IdA, which is
\* connected, and both requests wait on the entries created with them
C17_Witness ==
    /\ Len(requests) = 2
    /\ requests[1].pc = "create.promise" /\ requests[2].pc = "create.promise"
    /\ Handler(requests[1]) # Handler(requests[2])
    /\ posted = {[by |-> 1, client |-> 1, data |-> AdvisoryFor(1)],
                 [by |-> 2, client |-> 1, data |-> AdvisoryFor(2)]}
    /\ 1 \in clients

----------------------------------------------------------------------------
(* C18 Malformed session id: a request whose client is connected and has no *)
(* id parameter in its URL ends with a TypeError in the step after          *)
(* clients.get, which changes no store and posts nothing, and no advisory   *)
(* is ever posted for it; a did-load-resource or did-load-localhost message *)
(* from such a client ends with an uncaught TypeError and both stores as    *)
(* they were, and no message of such a client changes a store.              *)
\* the clients whose URL has no id parameter that the pattern matches
NoIdClients == {c \in ClientIds : WebviewIdThrows(c)}

HasNoId(c) == c \in NoIdClients

C18_RequestStep ==
    requests' # requests =>
        \A r \in DOMAIN requests :
            (/\ HasNoId(Event(requests[r]).clientId)
             /\ Event(requests[r]).clientId \in clients
             /\ requests'[r] # requests[r])
            => /\ requests[r].pc = "clients.get"
               /\ requests'[r].pc = "threw"
               /\ requests'[r].response = TypeError
               /\ UNCHANGED <<resourceRequestStore, localhostRequestStore, posted>>

C18_NoStoreAccess ==
    /\ \A r \in DOMAIN requests :
            HasNoId(Event(requests[r]).clientId) =>
                /\ requests[r].pc \in {"clients.get", "threw"}
                /\ \A m \in posted : m.by # r
    /\ \A source \in clients \cap MessageSources :
            HasNoId(source) =>
                /\ \A message \in ResourceMessages \cup LocalhostMessages :
                        MessageListener(source, message) = Unchanged(<<"Uncaught TypeError">>)
                /\ \A message \in Messages :
                        /\ MessageListener(source, message).resourceRequestStore
                                = resourceRequestStore
                        /\ MessageListener(source, message).localhostRequestStore
                                = localhostRequestStore

C18_MalformedId == [][C18_RequestStep]_vars /\ []C18_NoStoreAccess

\* a request of the client with no id has ended with a TypeError and a resolve message
\* of that client has failed, while a request of session IdA waits on its entry
C18_Witness ==
    /\ Len(requests) = 2
    /\ requests[1].pc = "create.promise" /\ ~EntryOf(1).settled
    /\ HasNoId(Event(requests[2]).clientId)
    /\ requests[2].pc = "threw" /\ requests[2].response = TypeError
    /\ console = <<"Uncaught TypeError">>
    /\ Cardinality(posted) = 1

----------------------------------------------------------------------------
(* C19 Store independence: the listener leaves the redirect store as it is  *)
(* for every did-load-resource message and the resource store as it is for  *)
(* every did-load-localhost message, also when the message names, for the   *)
(* sender's session, the key string of an entry of the other store; and a   *)
(* request joins or is answered from an entry of its own store only: it     *)
(* creates its entry when its own store has none, whatever the other store  *)
(* holds.                                                                   *)

\* resolve messages that carry the key of the other flow
CrossResourceMessages ==
    {[channel |-> "did-load-resource",
      data |-> [path |-> Origin(LocalhostUrl), status |-> st, data |-> d, mime |-> m]] :
        st \in Statuses, d \in Bodies, m \in Mimes}

CrossLocalhostMessages ==
    {[channel |-> "did-load-localhost",
      data |-> [origin |-> p, location |-> l]] : p \in ResourcePaths, l \in Locations}

OwnStore(r, resourceStore, localhostStore) ==
    IF Handler(requests[r]) = "processResourceRequest" THEN resourceStore ELSE localhostStore

C19_ListenerEffect ==
    \A source \in clients \cap MessageSources :
        /\ \A message \in ResourceMessages \cup CrossResourceMessages :
                MessageListener(source, message).localhostRequestStore = localhostRequestStore
        /\ \A message \in LocalhostMessages \cup CrossLocalhostMessages :
                MessageListener(source, message).resourceRequestStore = resourceRequestStore

C19_CheckStep ==
    requests' # requests =>
        \A r \in DOMAIN requests :
            (/\ requests[r].pc = "matchAll"
             /\ requests'[r].pc \notin {"matchAll", "no parent client"})
            => /\ requests'[r].pc =
                        IF _key(WebviewId(requests[r]), StoreKey(requests[r]))
                                \in DOMAIN OwnStore(r, resourceRequestStore, localhostRequestStore)
                        THEN "existing.promise" ELSE "create.promise"
               /\ IF Handler(requests[r]) = "processResourceRequest"
                  THEN localhostRequestStore' = localhostRequestStore
                  ELSE resourceRequestStore' = resourceRequestStore

C19_OwnEntry ==
    \A r \in DOMAIN requests :
        requests[r].pc = "resolved" =>
            LET k == _key(WebviewId(requests[r]), StoreKey(requests[r]))
                own == OwnStore(r, resourceRequestStore, localhostRequestStore)
            IN  /\ k \in DOMAIN own
                /\ own[k].settled
                /\ requests[r].response = Materialize(r, own[k].value)

C19_StoreIndependence ==
    [][C19_CheckStep]_vars /\ []C19_ListenerEffect /\ []C19_OwnEntry

\* session IdA has an entry in each store: the resource entry is settled and its request
\* answered, the redirect entry is not settled and its request waits
C19_Witness ==
    /\ Len(requests) = 2
    /\ WebviewId(requests[1]) = IdA /\ WebviewId(requests[2]) = IdA
    /\ Handler(requests[1]) = "processResourceRequest"
    /\ Handler(requests[2]) = "processLocalhostRequest"
    /\ requests[1].pc = "resolved"
    /\ requests[2].pc = "create.promise" /\ ~EntryOf(2).settled
    /\ 1 \in clients

====
